---- MODULE Spec2Model ----
(***************************************************************************)
(* A model of libswoc's BufferWriter formatting (src/src/bw_format.cc):     *)
(* the alignment engine, the radix converter, the integer and float         *)
(* formatters, the template compiler and the printf translator.             *)
(*                                                                          *)
(* Text is a sequence of one-character strings.  Each part of the program   *)
(* is driven by a specification of its own (SpecAlign, SpecRadix, SpecInt,  *)
(* SpecFloat, SpecCompile, SpecPrintf) over the same variables; the         *)
(* variables a specification does not use stay at their idle values.        *)
(***************************************************************************)
EXTENDS Integers, Sequences, FiniteSets, TLC

VARIABLES
  pc,        \* position of the driver of the part being run
  spec,      \* the bwf::Spec in use (render family)
  arg,       \* the argument being rendered
  w,         \* the sink (BufferWriter): [buf, n]
  pre,       \* the sink as it was when Adjust_Alignment was entered
  res,       \* result of the last To_Radix call: [buff, count]
  tmpl,      \* the template text handed to Format::Format / C_Format
  fmt,       \* Format::Format's extractor: the template text not yet parsed
  items,     \* Format::_items
  arg_idx,   \* Format::Format's implicit argument counter
  err,       \* kind of the exception thrown by the constructor ("none": none)
  fx_idx,    \* FormatExtractor::_idx
  out_c,     \* what iterating the compiled Format has yielded so far
  tv_fmt,    \* TextViewExtractor::_fmt of the immediate iteration
  tv_idx,    \* implicit argument counter of the immediate iteration
  out_i,     \* what iterating the template text has yielded so far
  c_fmt,     \* C_Format::_fmt
  saved,     \* C_Format::_saved
  saved_p,   \* C_Format::_saved_p
  prec_p,    \* C_Format::_prec_p
  calls      \* the calls of C_Format::operator() made so far, in order

renderVars == <<spec, arg, w, pre, res>>
templVars  == <<fmt, items, arg_idx, err, fx_idx, out_c, tv_fmt, tv_idx, out_i>>
printfVars == <<c_fmt, saved, saved_p, prec_p, calls>>

----------------------------------------------------------------------------
(* Bounds of the model.                                                     *)

MaxValueLen == 3   \* longest value written before Adjust_Alignment
MaxWidth    == 5   \* largest min_width / max_width drawn
MaxCap      == 6   \* largest sink capacity drawn
MaxN        == 70  \* largest magnitude handed to To_Radix
MaxInt      == 17  \* largest magnitude handed to Format_Integer
MaxIntWidth == 8   \* largest min_width drawn for Format_Integer
MaxWhole    == 3   \* largest integral part of a float drawn
FracDen     == 200 \* a float's fraction is drawn as k / FracDen
MaxPrec     == 3   \* largest precision drawn for Format_Float
MaxTmplLen  == 5   \* longest template handed to Format::Format
MaxCLen     == 5   \* longest printf template handed to C_Format
MaxBodyLen  == 4   \* longest specifier body handed to Spec::parse
MaxScratchPrec == 18 \* largest precision drawn for the scratch buffers
MaxCapture  == 2   \* largest value handed to C_Format::capture

----------------------------------------------------------------------------
(* Helpers on text.                                                         *)

Min2(a, b) == IF a < b THEN a ELSE b
Max2(a, b) == IF a < b THEN b ELSE a

\* n copies of byte c.
Rep(c, n) == [i \in 1..Max2(n, 0) |-> c]

\* All texts over alphabet A of length at most n.
TextsUpTo(A, n) == UNION { [1..k -> A] : k \in 0..n }

\* The char value 0.
NUL == "NUL"

----------------------------------------------------------------------------
(* Spec: the fields of bwf::Spec the formatters read.                       *)

SIGN_ALWAYS == "+"
SIGN_NEVER  == " "
SIGN_NEG    == "-"

AlignModes == {"NONE", "LEFT", "RIGHT", "CENTER", "SIGN"}

\* Spec::_max when no maximum width was given.
NoMax == 1000000

DefaultSpec ==
  [ _name |-> <<>>, _idx |-> -1, _fill |-> " ", _sign |-> SIGN_NEG,
    _align |-> "NONE", _type |-> "g", _radix_lead_p |-> FALSE,
    _min |-> 0, _prec |-> -1, _max |-> NoMax, _ext |-> <<>> ]

----------------------------------------------------------------------------
(* The sink.  A FixedBufferWriter over a buffer of Len(buf) bytes: n counts *)
(* every byte attempted (the extent), bytes past the capacity are dropped.  *)
(* An unwritten byte of the buffer reads "?".                               *)

Capacity(s) == Len(s.buf)
Extent(s)   == s.n

NewSink(cap) == [buf |-> Rep("?", cap), n |-> 0]

\* The bytes the sink holds.
View(s) == SubSeq(s.buf, 1, Min2(s.n, Capacity(s)))

BW_write(s, c) ==
  [ buf |-> IF s.n < Capacity(s) THEN [s.buf EXCEPT ![s.n + 1] = c] ELSE s.buf,
    n   |-> s.n + 1 ]

RECURSIVE BW_write_text(_, _)
BW_write_text(s, t) ==
  IF t = <<>> THEN s ELSE BW_write_text(BW_write(s, Head(t)), Tail(t))

BW_commit(s, k) == [s EXCEPT !.n = s.n + k]

BW_discard(s, k) == [s EXCEPT !.n = s.n - Min2(k, s.n)]

\* Move k bytes from offset src to offset dst (0-based), clipped to the
\* written part of the buffer; the regions may overlap (memmove).
BW_copy(s, dst, src, k) ==
  LET limit == Min2(Capacity(s), s.n)
      len   == Min2(k, Min2(limit - dst, limit - src))
  IN  [s EXCEPT !.buf = [i \in 1..Capacity(s) |->
                           IF i > dst /\ i <= dst + len
                             THEN s.buf[src + (i - dst)]
                             ELSE s.buf[i]]]

\* Write c to the sink k times (a loop "for (i = k; i > 0; --i) write(c)").
RECURSIVE BW_fill(_, _, _)
BW_fill(s, c, k) == IF k <= 0 THEN s ELSE BW_fill(BW_write(s, c), c, k - 1)

----------------------------------------------------------------------------
(* Adjust_Alignment.                                                        *)

\* <<left_delta, right_delta>> for a delta under an alignment mode.
Deltas(align, delta) ==
  IF align = "RIGHT" THEN <<delta, 0>>
  ELSE IF align = "CENTER" THEN <<delta \div 2, (delta + 1) \div 2>>
  ELSE <<0, delta>>

Adjust_Bad_Center(aux, sp) ==
  LET extent == Extent(aux)
      min    == sp._min
  IN  IF extent < min
        THEN LET delta == min - extent
                 left_delta  == IF sp._align = "RIGHT" THEN delta
                                ELSE IF sp._align = "CENTER"
                                  THEN (delta + 1) \div 2 ELSE 0
                 right_delta == delta - left_delta
                 shifted ==
                   IF left_delta > 0
                     THEN LET work_area == extent + left_delta
                              a1 == BW_commit(aux, left_delta)
                              a2 == BW_copy(a1, left_delta, 0, extent)
                              a3 == BW_discard(a2, work_area)
                              a4 == BW_fill(a3, sp._fill, left_delta)
                          IN  BW_commit(a4, extent)
                     ELSE aux
             IN  BW_fill(shifted, sp._fill, right_delta)
        ELSE IF sp._max < extent
               THEN BW_discard(aux, extent - sp._max)
               ELSE aux

Adjust_Alignment(aux, sp) ==
  LET extent == Extent(aux)
      min    == sp._min
  IN  IF extent < min
        THEN LET delta == min - extent
                 left_delta  == Deltas(sp._align, delta)[1]
                 right_delta == Deltas(sp._align, delta)[2]
                 shifted ==
                   IF left_delta > 0
                     THEN LET work_area == extent + left_delta
                              a1 == BW_commit(aux, left_delta)
                              a2 == BW_copy(a1, left_delta, 0, extent)
                              a3 == BW_discard(a2, work_area)
                              a4 == BW_fill(a3, sp._fill, left_delta)
                          IN  BW_commit(a4, extent)
                     ELSE aux
             IN  BW_fill(shifted, sp._fill, right_delta)
        ELSE IF sp._max < extent
               THEN BW_discard(aux, extent - sp._max)
               ELSE aux

----------------------------------------------------------------------------
(* To_Radix.  The digits are written from the end of a scratch buffer of    *)
(* `width` bytes towards its start; the count of digits is returned.  The   *)
(* buffer is uninitialised on entry ("?" in every byte).  A write before    *)
(* the start of the buffer is counted but not stored.                       *)

UPPER_DIGITS ==
  << "0","1","2","3","4","5","6","7","8","9","A","B","C","D","E","F","G","H",
     "I","J","K","L","M","N","O","P","Q","R","S","T","U","V","W","X","Y","Z" >>
LOWER_DIGITS ==
  << "0","1","2","3","4","5","6","7","8","9","a","b","c","d","e","f","g","h",
     "i","j","k","l","m","n","o","p","q","r","s","t","u","v","w","x","y","z" >>

\* *--out = c, with out the number of bytes before the write position.
Store(buff, out, c) ==
  IF out - 1 >= 0 /\ out - 1 < Len(buff)
    THEN [buff EXCEPT ![out] = c] ELSE buff

RECURSIVE To_Radix_Loop(_, _, _, _, _)
To_Radix_Loop(n, buff, out, radix, digits) ==
  IF n = 0 THEN [buff |-> buff, out |-> out]
  ELSE To_Radix_Loop(n \div radix, Store(buff, out, digits[(n % radix) + 1]),
                     out - 1, radix, digits)

To_Radix_No_Zero(radix, n, width, digits) ==
  LET r == To_Radix_Loop(n, Rep("?", width), width, radix, digits)
  IN  [buff |-> r.buff, count |-> width - r.out]

To_Radix(radix, n, width, digits) ==
  LET buff == Rep("?", width)
      r == IF n # 0
             THEN To_Radix_Loop(n, buff, width, radix, digits)
             ELSE [buff |-> Store(buff, width, "0"), out |-> width - 1]
  IN  [buff |-> r.buff, count |-> width - r.out]

\* std::numeric_limits<uintmax_t>::digits + 1, the size of Format_Integer's buff.
IntBuffSize == 65

\* The last k bytes of a buffer: string_view{buff + sizeof(buff) - k, k}.
Suffix(buff, k) == SubSeq(buff, Len(buff) - k + 1, Len(buff))

----------------------------------------------------------------------------
(* Write_Aligned.  The callback f writes a fixed text, `body`.              *)

\* Write_Aligned with the same half of the fill on both sides under CENTER.
Write_Aligned_Even_Center(s, body, align, width, fill, neg) ==
  LET sign(x) == IF neg # NUL THEN BW_write(x, neg) ELSE x
      f(x)    == BW_write_text(x, body)
  IN  CASE align = "LEFT"   -> BW_fill(f(sign(s)), fill, width)
        [] align = "RIGHT"  -> f(sign(BW_fill(s, fill, width)))
        [] align = "CENTER" ->
             BW_fill(f(sign(BW_fill(s, fill, width \div 2))), fill, width \div 2)
        [] align = "SIGN"   -> f(BW_fill(sign(s), fill, width))
        [] OTHER            -> f(sign(s))

Write_Aligned(s, body, align, width, fill, neg) ==
  LET sign(x) == IF neg # NUL THEN BW_write(x, neg) ELSE x
      f(x)    == BW_write_text(x, body)
  IN  CASE align = "LEFT"   -> BW_fill(f(sign(s)), fill, width)
        [] align = "RIGHT"  -> f(sign(BW_fill(s, fill, width)))
        [] align = "CENTER" ->
             BW_fill(f(sign(BW_fill(s, fill, width \div 2))), fill, (width + 1) \div 2)
        [] align = "SIGN"   -> f(BW_fill(sign(s), fill, width))
        [] OTHER            -> f(sign(s))

----------------------------------------------------------------------------
(* Format_Integer.                                                          *)

\* The sign character Format_Integer writes (NUL: none).
Sign_Like_Float(sp, neg_p) ==
  IF neg_p THEN "-" ELSE IF sp._sign # SIGN_NEG THEN sp._sign ELSE NUL

Integer_Sign(sp, neg_p) ==
  IF sp._sign # SIGN_NEVER
    THEN IF neg_p THEN "-"
         ELSE IF sp._sign = SIGN_ALWAYS THEN sp._sign ELSE NUL
    ELSE NUL

\* The switch on spec._type: <<prefix1, prefix2, radix, digit alphabet>>.
Integer_Style(sp) ==
  LET prefix1 == IF sp._radix_lead_p THEN "0" ELSE NUL
  IN  CASE sp._type = "x" -> <<prefix1, "x", 16, LOWER_DIGITS>>
        [] sp._type = "X" -> <<prefix1, "X", 16, UPPER_DIGITS>>
        [] sp._type = "b" -> <<prefix1, "b", 2, LOWER_DIGITS>>
        [] sp._type = "B" -> <<prefix1, "B", 2, UPPER_DIGITS>>
        [] sp._type = "o" -> <<prefix1, NUL, 8, LOWER_DIGITS>>
        [] OTHER          -> <<NUL, NUL, 10, LOWER_DIGITS>>

\* The radix prefix written before the digits.
Integer_Prefix(sp) ==
  LET st == Integer_Style(sp)
  IN  IF st[1] # NUL
        THEN IF st[2] # NUL THEN <<st[1], st[2]>> ELSE <<st[1]>>
        ELSE <<>>

\* The To_Radix call Format_Integer makes.
Integer_Digits(sp, i) ==
  LET st == Integer_Style(sp)
  IN  To_Radix(st[3], i, IntBuffSize, st[4])

Format_Integer_Generic_Sign(s, sp, i, neg_p) ==
  LET neg    == Integer_Sign(sp, neg_p)
      prefix == Integer_Prefix(sp)
      r      == Integer_Digits(sp, i)
      digits == Suffix(r.buff, r.count)
      width  == sp._min - (IF neg # NUL THEN 1 ELSE 0) - Len(prefix) - r.count
  IN  Write_Aligned(s, prefix \o digits, sp._align, width, sp._fill, neg)

Format_Integer(s, sp, i, neg_p) ==
  LET neg    == Integer_Sign(sp, neg_p)
      prefix == Integer_Prefix(sp)
      r      == Integer_Digits(sp, i)
      digits == Suffix(r.buff, r.count)
      width  == sp._min - (IF neg # NUL THEN 1 ELSE 0) - Len(prefix) - r.count
  IN  IF sp._align = "SIGN"
        THEN LET s1 == IF neg # NUL THEN BW_write(s, neg) ELSE s
                 s2 == BW_write_text(s1, prefix)
                 s3 == BW_fill(s2, sp._fill, width)
             IN  BW_write_text(s3, digits)
        ELSE Write_Aligned(s, prefix \o digits, sp._align, width, sp._fill, neg)

----------------------------------------------------------------------------
(* Format_Float.  A double is modelled by its class and, when normal, by    *)
(* its exact magnitude whole + fnum / FracDen; the arithmetic on it is      *)
(* exact.                                                                   *)

POWERS_OF_TEN ==
  <<1, 10, 100, 1000, 10000, 100000, 1000000, 10000000, 100000000, 1000000000>>

\* The scale for a precision: the table, extended by repeated multiplication.
RECURSIVE Times_Ten(_, _)
Times_Ten(shift, k) == IF k <= 0 THEN shift ELSE Times_Ten(shift * 10, k - 1)

Float_Shift(precision) ==
  IF precision < Len(POWERS_OF_TEN)
    THEN POWERS_OF_TEN[precision + 1]
    ELSE Times_Ten(POWERS_OF_TEN[Len(POWERS_OF_TEN)],
                   precision - (Len(POWERS_OF_TEN) - 1))

\* std::numeric_limits<double>::digits10 + 1, the size of whole[] and fraction[].
FloatBuffSize == 16

Float_Token(cls) ==
  CASE cls = "inf"       -> <<"I", "n", "f">>
    [] cls = "nan"       -> <<"N", "a", "N">>
    [] cls = "zero"      -> <<"0">>
    [] cls = "subnormal" -> <<"s","u","b","n","o","r","m","a","l">>
    [] OTHER             -> <<"u","n","k","n","o","w","n"," ","f","l","o","a","t">>

\* static_cast<uint64_t>(frac * shift + 0.5) for frac = fnum / FracDen.
Frac_Part(fnum, shift) == (2 * fnum * shift + FracDen) \div (2 * FracDen)

Format_Float(s, sp, f, neg_p) ==
  IF f.cls # "normal" THEN BW_write_text(s, Float_Token(f.cls))
  ELSE
    LET whole_part == f.whole
    IN  IF f.fnum = 0 \/ sp._prec = 0
          THEN Format_Integer(s, sp, whole_part, neg_p)
          ELSE
            LET precision == IF sp._prec = DefaultSpec._prec THEN 2 ELSE sp._prec
                neg == IF neg_p THEN "-"
                       ELSE IF sp._sign # "-" THEN sp._sign ELSE NUL
                shift == Float_Shift(precision)
                frac_part == Frac_Part(f.fnum, shift)
                l == To_Radix(10, whole_part, FloatBuffSize, LOWER_DIGITS)
                r == To_Radix(10, frac_part, FloatBuffSize, LOWER_DIGITS)
                width == sp._min - (IF neg # NUL THEN 1 ELSE 0)
                           - l.count - 1 - r.count
                whole_digits == Suffix(l.buff, l.count)
                frac_digits  == Suffix(r.buff, r.count)
            IN  Write_Aligned(s, whole_digits \o <<".">> \o frac_digits,
                              sp._align, width, sp._fill, neg)

----------------------------------------------------------------------------
(* 64-bit magnitudes.  A uintmax_t value that may exceed the integers of    *)
(* the model is held as the sequence of its decimal digits, most            *)
(* significant first and without leading zeros (zero is the empty           *)
(* sequence); arithmetic on it is the unsigned 64-bit arithmetic of the     *)
(* code.                                                                    *)

RECURSIVE Wide(_)
Wide(n) == IF n = 0 THEN <<>> ELSE Append(Wide(n \div 10), n % 10)

RECURSIVE Wide_Norm(_)
Wide_Norm(x) == IF x # <<>> /\ x[1] = 0 THEN Wide_Norm(Tail(x)) ELSE x

\* x * k + carry, exact.
RECURSIVE Wide_Mul_Add(_, _, _)
Wide_Mul_Add(x, k, carry) ==
  IF x = <<>> THEN Wide(carry)
  ELSE Append(Wide_Mul_Add(SubSeq(x, 1, Len(x) - 1), k,
                           (x[Len(x)] * k + carry) \div 10),
              (x[Len(x)] * k + carry) % 10)

\* Long division of x by k with the remainder rem carried in: [q, r].
RECURSIVE Wide_Div_Rem(_, _, _)
Wide_Div_Rem(x, k, rem) ==
  IF x = <<>> THEN [q |-> <<>>, r |-> rem]
  ELSE LET rest == Wide_Div_Rem(Tail(x), k, (rem * 10 + x[1]) % k)
       IN  [q |-> <<(rem * 10 + x[1]) \div k>> \o rest.q, r |-> rest.r]

Wide_Div(x, k) == Wide_Norm(Wide_Div_Rem(x, k, 0).q)
Wide_Rem(x, k) == Wide_Div_Rem(x, k, 0).r

\* x < y.
RECURSIVE Wide_Less(_, _)
Wide_Less(x, y) ==
  IF Len(x) # Len(y) THEN Len(x) < Len(y)
  ELSE IF x = <<>> THEN FALSE
  ELSE IF x[1] # y[1] THEN x[1] < y[1]
  ELSE Wide_Less(Tail(x), Tail(y))

\* x - y - borrow for x >= y + borrow, digit by digit from the right.
RECURSIVE Wide_Sub_Borrow(_, _, _)
Wide_Sub_Borrow(x, y, borrow) ==
  IF x = <<>> THEN <<>>
  ELSE Append(Wide_Sub_Borrow(SubSeq(x, 1, Len(x) - 1),
                              SubSeq(y, 1, Len(y) - 1),
                              IF x[Len(x)] - (IF y = <<>> THEN 0 ELSE y[Len(y)]) - borrow < 0
                                THEN 1 ELSE 0),
              (x[Len(x)] - (IF y = <<>> THEN 0 ELSE y[Len(y)]) - borrow + 10) % 10)

Wide_Sub(x, y) == Wide_Norm(Wide_Sub_Borrow(x, y, 0))

\* 2^64, one more than the largest uintmax_t.
Two64 == <<1, 8, 4, 4, 6, 7, 4, 4, 0, 7, 3, 7, 0, 9, 5, 5, 1, 6, 1, 6>>

\* The value of x as a uint64_t: x modulo 2^64.
RECURSIVE Wide_Wrap(_)
Wide_Wrap(x) == IF Wide_Less(x, Two64) THEN x ELSE Wide_Wrap(Wide_Sub(x, Two64))

----------------------------------------------------------------------------
(* To_Radix, one loop iteration at a time, and the scale of Format_Float,   *)
(* on 64-bit magnitudes.                                                    *)

\* A To_Radix<radix>(n, buff, width, digits) call in progress on a 64-bit n:
\* count is (buff + width) - out, the number of digits written so far.
To_Radix_Enter_64(radix, n, width, digits) ==
  [radix |-> radix, n |-> n, width |-> width, digits |-> digits,
   buff |-> Rep("?", width), count |-> 0]

\* The call has returned: a non-zero n is used up, or the '0' is written.
To_Radix_Done_64(fr) == fr.n = <<>> /\ fr.count > 0

\* "*--out = digits[n % RADIX]; n /= RADIX", or "*--out = '0'" when n is 0.
To_Radix_Step_64(fr) ==
  IF fr.n = <<>>
    THEN [fr EXCEPT !.buff = Store(fr.buff, fr.width - fr.count, "0"),
                    !.count = fr.count + 1]
    ELSE [fr EXCEPT !.buff = Store(fr.buff, fr.width - fr.count,
                                   fr.digits[Wide_Rem(fr.n, fr.radix) + 1]),
                    !.count = fr.count + 1,
                    !.n = Wide_Div(fr.n, fr.radix)]

\* The table as the source has it, 10^0 .. 10^10.
POWERS_OF_TEN_64 == [k \in 1..11 |-> <<1>> \o [j \in 1..(k - 1) |-> 0]]

\* "shift *= 10" k times, in uint64_t.
RECURSIVE Times_Ten_64(_, _)
Times_Ten_64(shift, k) ==
  IF k <= 0 THEN shift
  ELSE Times_Ten_64(Wide_Wrap(Wide_Mul_Add(shift, 10, 0)), k - 1)

Float_Shift_64(precision) ==
  IF precision < Len(POWERS_OF_TEN_64)
    THEN POWERS_OF_TEN_64[precision + 1]
    ELSE Times_Ten_64(POWERS_OF_TEN_64[Len(POWERS_OF_TEN_64)],
                      precision - (Len(POWERS_OF_TEN_64) - 1))

\* static_cast<uint64_t>(frac * shift + 0.5) for frac = fnum / FracDen and a
\* 64-bit shift.
Frac_Part_64(fnum, shift) ==
  Wide_Div(Wide_Mul_Add(shift, 2 * fnum, FracDen), 2 * FracDen)

\* "unsigned int precision": the default precision is 2.
Float_Precision(sp) == IF sp._prec = DefaultSpec._prec THEN 2 ELSE sp._prec

----------------------------------------------------------------------------
(* TextView operations.                                                     *)

\* The view without its first k bytes (remove_prefix, operator+=).
Drop(t, k) == SubSeq(t, Min2(k, Len(t)) + 1, Len(t))

\* The first byte of a view, NUL when the view is empty (operator*).
Deref(t) == IF t = <<>> THEN NUL ELSE t[1]

\* Offset (0-based) of the first byte of t in the set cs; -1 is npos.
Find(t, cs) ==
  IF \E i \in 1..Len(t) : t[i] \in cs
    THEN (CHOOSE i \in 1..Len(t) : t[i] \in cs /\ \A j \in 1..(i - 1) : t[j] \notin cs) - 1
    ELSE -1

\* take_prefix_at(offset): <<the prefix before the offset, the view after it>>.
Take_Prefix_At(t, off) == <<SubSeq(t, 1, off), Drop(t, off + 1)>>

\* take_prefix_at(char): split at the first c; no c: the whole view is taken.
Take_Prefix_At_Char(t, c) ==
  IF Find(t, {c}) = -1 THEN <<t, <<>> >> ELSE Take_Prefix_At(t, Find(t, {c}))

DecimalDigits == <<"0", "1", "2", "3", "4", "5", "6", "7", "8", "9">>

IsDigit(c) == \E i \in 1..10 : DecimalDigits[i] = c
IsSpace(c) == c = " "

RECURSIVE LTrimSpace(_)
LTrimSpace(t) == IF t # <<>> /\ IsSpace(t[1]) THEN LTrimSpace(Tail(t)) ELSE t

\* Length of the run of decimal digits t starts with.
RECURSIVE DigitRun(_)
DigitRun(t) == IF t # <<>> /\ IsDigit(t[1]) THEN 1 + DigitRun(Tail(t)) ELSE 0

\* svto_radix<10> on a run of decimal digits.
RECURSIVE Svto_Radix10(_)
Svto_Radix10(ds) ==
  IF ds = <<>> THEN 0
  ELSE Svto_Radix10(SubSeq(ds, 1, Len(ds) - 1)) * 10
         + ((CHOOSE i \in 1..10 : DecimalDigits[i] = ds[Len(ds)]) - 1)

\* radix10(src, out): [val |-> the value returned, num |-> the text left in out].
radix10(src) ==
  LET trimmed == LTrimSpace(src)
      num     == SubSeq(trimmed, 1, DigitRun(trimmed))
  IN  [val |-> Svto_Radix10(num), num |-> num]

----------------------------------------------------------------------------
(* Spec::parse.  The result is [err, spec]: err is "none", or the kind of   *)
(* the std::invalid_argument thrown.                                        *)

TypeChars == {"b", "B", "d", "g", "o", "p", "P", "s", "S", "x", "X"}
Is_Type(c) == c \in TypeChars
Is_Sign(c) == c \in {SIGN_NEVER, SIGN_NEG, SIGN_ALWAYS}
IsXDigit(c) == IsDigit(c) \/ c \in {"a","b","c","d","e","f","A","B","C","D","E","F"}

Align_Of(c) ==
  CASE c = "<" -> "LEFT"
    [] c = ">" -> "RIGHT"
    [] c = "^" -> "CENTER"
    [] c = "=" -> "SIGN"
    [] OTHER   -> "NONE"

\* The position of Spec::parse in the specifier text sz: err is the kind
\* thrown ("none" when nothing was thrown), done is set by "return true".
Parse_State(sp, sz) == [err |-> "none", spec |-> sp, sz |-> sz, done |-> sz = <<>>]
Halted(st) == st.err # "none" \/ st.done
Thrown(kind, st) == [st EXCEPT !.err = kind]

\* Fields set, k bytes consumed, parsing goes on.
Step(st, sp, k) == [st EXCEPT !.spec = sp, !.sz = Drop(st.sz, k)]

\* Fields set, k bytes consumed, "return true" when nothing is left.
Step_Or_Return(st, sp, k) ==
  [st EXCEPT !.spec = sp, !.sz = Drop(st.sz, k), !.done = (Drop(st.sz, k) = <<>>)]

\* "fill and alignment"; a URI-encoded fill byte is kept as its two hex digits.
Parse_Fill_Align(st) ==
  IF Halted(st) THEN st
  ELSE IF st.sz[1] = "%"
    THEN IF Len(st.sz) < 4 THEN Thrown("MalformedFillEscape", st)
         ELSE IF Align_Of(st.sz[4]) = "NONE" THEN Thrown("MissingAlignMark", st)
         ELSE IF ~IsXDigit(st.sz[3]) \/ ~IsXDigit(st.sz[2])
           THEN Thrown("NonHexFillDigits", st)
         ELSE Step_Or_Return(st, [st.spec EXCEPT !._align = Align_Of(st.sz[4]),
                                                 !._fill = <<"%", st.sz[2], st.sz[3]>>], 4)
  ELSE IF Len(st.sz) > 1 /\ Align_Of(st.sz[2]) # "NONE"
    THEN Step_Or_Return(st, [st.spec EXCEPT !._align = Align_Of(st.sz[2]),
                                            !._fill = st.sz[1]], 2)
  ELSE IF Align_Of(st.sz[1]) # "NONE"
    THEN Step_Or_Return(st, [st.spec EXCEPT !._align = Align_Of(st.sz[1])], 1)
  ELSE Step(st, [st.spec EXCEPT !._align = "NONE"], 0)

\* "sign".
Parse_Sign(st) ==
  IF Halted(st) THEN st
  ELSE IF Is_Sign(st.sz[1])
    THEN Step_Or_Return(st, [st.spec EXCEPT !._sign = st.sz[1]], 1)
    ELSE st

\* "radix prefix".
Parse_Lead(st) ==
  IF Halted(st) THEN st
  ELSE IF st.sz[1] = "#"
    THEN Step_Or_Return(st, [st.spec EXCEPT !._radix_lead_p = TRUE], 1)
    ELSE st

\* "0 fill for integers".
Parse_Zero(st) ==
  IF Halted(st) THEN st
  ELSE IF st.sz[1] = "0"
    THEN Step(st, [st.spec EXCEPT !._fill = "0",
                                  !._align = IF @ = "NONE" THEN "SIGN" ELSE @], 1)
    ELSE st

\* minimum width: digits.
Parse_Min(st) ==
  LET r == radix10(st.sz)
  IN  IF Halted(st) THEN st
      ELSE IF r.num # <<>>
        THEN Step_Or_Return(st, [st.spec EXCEPT !._min = r.val], Len(r.num))
        ELSE st

\* "precision": '.' digits.
Parse_Prec(st) ==
  LET r == radix10(Drop(st.sz, 1))
  IN  IF Halted(st) THEN st
      ELSE IF Deref(st.sz) = "."
        THEN IF r.num # <<>>
               THEN Step_Or_Return(st, [st.spec EXCEPT !._prec = r.val], 1 + Len(r.num))
               ELSE Thrown("MissingPrecisionDigits", st)
        ELSE st

\* "style (type)", and the type indicator allowed after a maximum width.
Parse_Type(st) ==
  IF Halted(st) THEN st
  ELSE IF Is_Type(Deref(st.sz))
    THEN Step_Or_Return(st, [st.spec EXCEPT !._type = st.sz[1]], 1)
    ELSE st

\* "maximum width": ',' digits [type].
Parse_Max(st) ==
  LET r == radix10(Drop(st.sz, 1))
  IN  IF Halted(st) THEN st
      ELSE IF Deref(st.sz) = ","
        THEN IF r.num # <<>>
               THEN Parse_Type(Step_Or_Return(st, [st.spec EXCEPT !._max = r.val],
                                              1 + Len(r.num)))
               ELSE Thrown("MissingMaxWidthDigits", st)
        ELSE st

\* The name and index, then the extension, of a specifier text.
Parse_Name(sp, name) ==
  [sp EXCEPT !._name = name,
             !._idx = IF Len(radix10(name).num) = Len(name) THEN radix10(name).val ELSE @]

Parse_Ext(sp, rest) ==
  IF rest = <<>> THEN Parse_State(sp, <<>>)
  ELSE Parse_State([sp EXCEPT !._ext = Take_Prefix_At_Char(rest, ":")[2]],
                   Take_Prefix_At_Char(rest, ":")[1])

Parse_Result(st) == [err |-> st.err, spec |-> st.spec]

\* Spec::parse on a Spec sp: [err, spec].
Spec_Parse(sp, txt) ==
  Parse_Result(
    Parse_Max(Parse_Type(Parse_Prec(Parse_Min(Parse_Zero(Parse_Lead(Parse_Sign(
      Parse_Fill_Align(
        Parse_Ext(Parse_Name(sp, Take_Prefix_At_Char(txt, ":")[1]),
                  Take_Prefix_At_Char(txt, ":")[2]))))))))))

----------------------------------------------------------------------------
(* Format::TextViewExtractor.                                               *)

\* TextViewExtractor::parse with a brace in last position taken for an
\* unopened delimiter.
TextView_Parse_No_Trailing(txt) ==
  LET off == Find(txt, {"{", "}"})
      Out(e, f, lit, sp, r) ==
        [err |-> e, fmt |-> f, literal |-> lit, specifier |-> sp, ret |-> r]
  IN  IF off = -1 THEN Out("none", <<>>, txt, <<>>, FALSE)
      ELSE IF Len(txt) > off + 1 /\ txt[off + 1] = txt[off + 2]
        THEN LET t == Take_Prefix_At(txt, off + 1)
             IN  Out("none", t[2], t[1], <<>>, FALSE)
      ELSE IF txt[off + 1] = "}"
        THEN Out("UnopenedDelimiter", txt, <<>>, <<>>, FALSE)
      ELSE LET literal == SubSeq(txt, 1, off)
               txt1    == Drop(txt, off + 1)
               off1    == Find(txt1, {"}"})
           IN  IF off1 = -1
                 THEN Out("UnclosedDelimiter", txt1, literal, <<>>, FALSE)
                 ELSE LET t == Take_Prefix_At(txt1, off1)
                      IN  Out("none", t[2], literal, t[1], TRUE)

\* TextViewExtractor::parse with both braces of a doubled brace kept in the
\* literal.
TextView_Parse_Both_Braces(txt) ==
  LET off == Find(txt, {"{", "}"})
      Out(e, f, lit, sp, r) ==
        [err |-> e, fmt |-> f, literal |-> lit, specifier |-> sp, ret |-> r]
  IN  IF off = -1 THEN Out("none", <<>>, txt, <<>>, FALSE)
      ELSE IF Len(txt) <= off + 1
        THEN Out("TrailingInvalidCharacter", txt, <<>>, <<>>, FALSE)
      ELSE IF txt[off + 1] = txt[off + 2]
        THEN Out("none", Drop(txt, off + 2), SubSeq(txt, 1, off + 2), <<>>, FALSE)
      ELSE IF txt[off + 1] = "}"
        THEN Out("UnopenedDelimiter", txt, <<>>, <<>>, FALSE)
      ELSE LET literal == SubSeq(txt, 1, off)
               txt1    == Drop(txt, off + 1)
               off1    == Find(txt1, {"}"})
           IN  IF off1 = -1
                 THEN Out("UnclosedDelimiter", txt1, literal, <<>>, FALSE)
                 ELSE LET t == Take_Prefix_At(txt1, off1)
                      IN  Out("none", t[2], literal, t[1], TRUE)

\* TextViewExtractor::parse with a text that has no brace shipped as the
\* literal and left in place.
TextView_Parse_Keeps_Literal(txt) ==
  LET off == Find(txt, {"{", "}"})
      Out(e, f, lit, sp, r) ==
        [err |-> e, fmt |-> f, literal |-> lit, specifier |-> sp, ret |-> r]
  IN  IF off = -1 THEN Out("none", txt, txt, <<>>, FALSE)
      ELSE IF Len(txt) > off + 1
        THEN LET c1 == txt[off + 1]
                 c2 == txt[off + 2]
             IN  IF c1 = c2
                   THEN LET t == Take_Prefix_At(txt, off + 1)
                        IN  Out("none", t[2], t[1], <<>>, FALSE)
                 ELSE IF c1 = "}"
                   THEN Out("UnopenedDelimiter", txt, <<>>, <<>>, FALSE)
                 ELSE LET literal == SubSeq(txt, 1, off)
                          txt1    == Drop(txt, off + 1)
                          off1    == Find(txt1, {"}"})
                      IN  IF txt1 # <<>>
                            THEN IF off1 = -1
                                   THEN Out("UnclosedDelimiter", txt1, literal, <<>>, FALSE)
                                   ELSE LET t == Take_Prefix_At(txt1, off1)
                                        IN  Out("none", t[2], literal, t[1], TRUE)
                            ELSE Out("none", txt1, literal, <<>>, FALSE)
        ELSE Out("TrailingInvalidCharacter", txt, <<>>, <<>>, FALSE)

\* parse(txt, literal, specifier): [err, txt, literal, specifier, ret].
TextView_Parse(txt) ==
  LET off == Find(txt, {"{", "}"})
      Out(e, f, lit, sp, r) ==
        [err |-> e, fmt |-> f, literal |-> lit, specifier |-> sp, ret |-> r]
  IN  IF off = -1 THEN Out("none", <<>>, txt, <<>>, FALSE)
      ELSE IF Len(txt) > off + 1
        THEN LET c1 == txt[off + 1]
                 c2 == txt[off + 2]
             IN  IF c1 = c2
                   THEN LET t == Take_Prefix_At(txt, off + 1)
                        IN  Out("none", t[2], t[1], <<>>, FALSE)
                 ELSE IF c1 = "}"
                   THEN Out("UnopenedDelimiter", txt, <<>>, <<>>, FALSE)
                 ELSE LET literal == SubSeq(txt, 1, off)
                          txt1    == Drop(txt, off + 1)
                          off1    == Find(txt1, {"}"})
                      IN  IF txt1 # <<>>
                            THEN IF off1 = -1
                                   THEN Out("UnclosedDelimiter", txt1, literal, <<>>, FALSE)
                                   ELSE LET t == Take_Prefix_At(txt1, off1)
                                        IN  Out("none", t[2], literal, t[1], TRUE)
                            ELSE Out("none", txt1, literal, <<>>, FALSE)
        ELSE Out("TrailingInvalidCharacter", txt, <<>>, <<>>, FALSE)

\* operator()(literal_v, spec) once parse has returned p, spec a fresh Spec.
Extract_Parsed(p, q) ==
  IF p.err # "none"
    THEN [err |-> p.err, fmt |-> p.fmt, literal |-> p.literal,
          spec_p |-> FALSE, spec |-> DefaultSpec]
  ELSE IF p.ret
    THEN [err |-> q.err, fmt |-> p.fmt, literal |-> p.literal,
          spec_p |-> q.err = "none", spec |-> q.spec]
    ELSE [err |-> "none", fmt |-> p.fmt, literal |-> p.literal,
          spec_p |-> FALSE, spec |-> DefaultSpec]

\* operator()(literal_v, spec) on a non-empty _fmt:
\* [err, fmt, literal, spec_p, spec].
TextView_Extract(txt) ==
  Extract_Parsed(TextView_Parse(txt),
                 Spec_Parse(DefaultSpec, TextView_Parse(txt).specifier))

----------------------------------------------------------------------------
(* Format::Format and Format::FormatExtractor.                              *)

\* Spec::LITERAL_TYPE and Spec::CAPTURE_TYPE, the two sentinel types.
LITERAL_TYPE == "LITERAL"
CAPTURE_TYPE == "CAPTURE"

\* The item stored for a literal: lit_spec with _ext the literal text.
Literal_Item(text) == [DefaultSpec EXCEPT !._type = LITERAL_TYPE, !._ext = text]

\* The index bookkeeping of the constructor for one specifier:
\* "spec._idx = arg_idx++" when there is no name, then "++arg_idx" when the
\* index is not negative.  [spec, arg_idx] after it.
Assign_Index(sp, idx) ==
  LET sp1  == IF sp._name = <<>> THEN [sp EXCEPT !._idx = idx] ELSE sp
      idx1 == IF sp._name = <<>> THEN idx + 1 ELSE idx
  IN  [spec |-> sp1, arg_idx |-> IF sp1._idx >= 0 THEN idx1 + 1 ELSE idx1]

\* The body of the constructor's loop once the extractor has returned e:
\* [err, fmt, items, arg_idx].
Format_Store(e, its, idx) ==
  LET i1 == IF e.literal # <<>> THEN Append(its, Literal_Item(e.literal)) ELSE its
  IN  IF e.err # "none"
        THEN [err |-> e.err, fmt |-> e.fmt, items |-> its, arg_idx |-> idx]
      ELSE IF e.spec_p
        THEN [err |-> "none", fmt |-> e.fmt,
              items |-> Append(i1, Assign_Index(e.spec, idx).spec),
              arg_idx |-> Assign_Index(e.spec, idx).arg_idx]
        ELSE [err |-> "none", fmt |-> e.fmt, items |-> i1, arg_idx |-> idx]

\* One iteration of the constructor's loop on the remaining template text.
Format_Step(txt, its, idx) == Format_Store(TextView_Extract(txt), its, idx)

\* FormatExtractor::operator(): [literal, spec_p, spec, idx].
Format_Extract(its, idx) ==
  LET lit_p == idx < Len(its) /\ its[idx + 1]._type = LITERAL_TYPE
      idx1  == IF lit_p THEN idx + 1 ELSE idx
      lit   == IF lit_p THEN its[idx + 1]._ext ELSE <<>>
  IN  IF idx1 < Len(its) /\ its[idx1 + 1]._type # LITERAL_TYPE
        THEN [literal |-> lit, spec_p |-> TRUE, spec |-> its[idx1 + 1], idx |-> idx1 + 1]
        ELSE [literal |-> lit, spec_p |-> FALSE, spec |-> DefaultSpec, idx |-> idx1]

\* What one call of an extractor hands to the render loop: the literal, when
\* it is not empty, then the specifier, when there is one.
Yield(literal, spec_p, sp) ==
  (IF literal # <<>> THEN << [kind |-> "literal", text |-> literal] >> ELSE <<>>)
    \o (IF spec_p THEN << [kind |-> "spec", spec |-> sp] >> ELSE <<>>)

\* The render loop on template text: a specifier with no name takes the next
\* implicit argument position.
Immediate_Index(sp, idx) ==
  IF sp._name = <<>>
    THEN [spec |-> [sp EXCEPT !._idx = idx], arg_idx |-> idx + 1]
    ELSE [spec |-> sp, arg_idx |-> idx]

----------------------------------------------------------------------------
(* C_Format, the printf translator.  Its state is st = [fmt, saved,         *)
(* saved_p, prec_p]; a call of operator() is followed through the record    *)
(* c = [orig, fmt, literal, spec, width_p, prec_p, ret], where orig is _fmt *)
(* on entry and ret is "run" until the call returns, then "true" or         *)
(* "false".                                                                 *)

\* TextView{literal.data(), _fmt.data()}: the text consumed since entry.
Consumed(orig, cur) == SubSeq(orig, 1, Len(orig) - Len(cur))

\* "return false" with everything consumed so far as the literal.
C_Reject(c, cur) ==
  [c EXCEPT !.fmt = cur, !.literal = Consumed(c.orig, cur), !.ret = "false"]

\* The literal before '%', a template ending there, and "%%".
C_Literal(st) ==
  LET t == Take_Prefix_At_Char(st.fmt, "%")
      c == [orig |-> st.fmt, fmt |-> t[2], literal |-> t[1], spec |-> DefaultSpec,
            width_p |-> FALSE, prec_p |-> st.prec_p, ret |-> "run"]
  IN  IF t[2] = <<>> THEN [c EXCEPT !.ret = "false"]
      ELSE IF Deref(t[2]) = "%"
        THEN [c EXCEPT !.literal = Append(t[1], "%"), !.fmt = Drop(t[2], 1),
                       !.ret = "false"]
        ELSE [c EXCEPT !.spec = [DefaultSpec EXCEPT !._align = "RIGHT"]]

\* The do-while loop over the flag characters: [fmt, spec] after it.
RECURSIVE C_Flag_Loop(_, _)
C_Flag_Loop(txt, sp) ==
  IF txt = <<>> THEN [fmt |-> txt, spec |-> sp]
  ELSE IF txt[1] = "-" THEN C_Flag_Loop(Drop(txt, 1), [sp EXCEPT !._align = "LEFT"])
  ELSE IF txt[1] = "+" THEN C_Flag_Loop(Drop(txt, 1), [sp EXCEPT !._sign = SIGN_ALWAYS])
  ELSE IF txt[1] = " " THEN C_Flag_Loop(Drop(txt, 1), [sp EXCEPT !._sign = SIGN_NEVER])
  ELSE IF txt[1] = "#" THEN C_Flag_Loop(Drop(txt, 1), [sp EXCEPT !._radix_lead_p = TRUE])
  ELSE IF txt[1] = "0" THEN C_Flag_Loop(Drop(txt, 1), [sp EXCEPT !._fill = "0"])
  ELSE [fmt |-> txt, spec |-> sp]

C_Flags(c) ==
  LET f == C_Flag_Loop(c.fmt, c.spec)
  IN  IF c.ret # "run" THEN c
      ELSE IF f.fmt = <<>> THEN C_Reject([c EXCEPT !.spec = f.spec], f.fmt)
      ELSE [c EXCEPT !.fmt = f.fmt, !.spec = f.spec]

\* The width: '*', or radix10 on a copy of _fmt, which is left where it is.
C_Width(c) ==
  LET r == radix10(c.fmt)
  IN  IF c.ret # "run" THEN c
      ELSE IF Deref(c.fmt) = "*"
        THEN [c EXCEPT !.width_p = TRUE, !.fmt = Drop(c.fmt, 1)]
      ELSE IF r.num # <<>> THEN [c EXCEPT !.spec._min = r.val]
      ELSE c

\* The precision: '.' then '*', or radix10 on a copy of _fmt.
C_Prec(c) ==
  LET r == radix10(Drop(c.fmt, 1))
  IN  IF c.ret # "run" THEN c
      ELSE IF Deref(c.fmt) = "."
        THEN IF Deref(Drop(c.fmt, 1)) = "*"
               THEN [c EXCEPT !.prec_p = TRUE, !.fmt = Drop(c.fmt, 2)]
               ELSE [c EXCEPT !.fmt = Drop(c.fmt, 1),
                              !.spec._prec = IF r.num # <<>> THEN r.val ELSE 0]
        ELSE c

\* The template ends inside the conversion.
C_Ended(c) ==
  IF c.ret # "run" THEN c
  ELSE IF c.fmt = <<>> THEN C_Reject(c, c.fmt)
  ELSE c

\* "c = *_fmt++" after a length modifier in the set mods: [ch, fmt].
C_Strip(cf, mods) ==
  IF cf.ch \in mods THEN [ch |-> Deref(cf.fmt), fmt |-> Drop(cf.fmt, 1)] ELSE cf

C_Conv_Char(txt) ==
  C_Strip(C_Strip([ch |-> Deref(txt), fmt |-> Drop(txt, 1)], {"l", "h"}),
          {"l", "z", "j", "t", "h"})

\* The switch on the conversion character cf.ch.
C_Switch(c, cf) ==
  IF cf.ch \in {"c", "x", "X", "p"}
    THEN [c EXCEPT !.fmt = cf.fmt, !.spec._type = cf.ch]
  ELSE IF cf.ch \in {"i", "d", "j", "z"}
    THEN [c EXCEPT !.fmt = cf.fmt, !.spec._type = "d"]
  ELSE IF cf.ch \in {"f", "s"}
    THEN [c EXCEPT !.fmt = cf.fmt, !.spec._type = cf.ch]
  ELSE C_Reject(c, cf.fmt)

C_Conv(c) == IF c.ret # "run" THEN c ELSE C_Switch(c, C_Conv_Char(c.fmt))

\* What a call hands back: [ret, literal, spec] and the state it leaves.
C_Return(ret, literal, sp, txt, sv, sv_p, pr_p) ==
  [ret |-> ret, literal |-> literal, spec |-> sp,
   fmt |-> txt, saved |-> sv, saved_p |-> sv_p, prec_p |-> pr_p]

\* The end of a call that parsed a conversion: the specifier is saved and a
\* capture specifier returned when the width or the precision is dynamic.
C_Defer(c, st) ==
  IF c.ret = "false"
    THEN C_Return(FALSE, c.literal, c.spec, c.fmt, st.saved, st.saved_p, c.prec_p)
  ELSE IF c.width_p
    THEN C_Return(TRUE, c.literal,
                  [DefaultSpec EXCEPT !._type = CAPTURE_TYPE, !._ext = <<"w">>],
                  c.fmt, c.spec, TRUE, c.prec_p)
  ELSE IF c.prec_p
    THEN C_Return(TRUE, c.literal,
                  [DefaultSpec EXCEPT !._type = CAPTURE_TYPE, !._ext = <<"p">>],
                  c.fmt, c.spec, TRUE, FALSE)
  ELSE C_Return(TRUE, c.literal, c.spec, c.fmt, st.saved, st.saved_p, c.prec_p)

\* C_Format::operator()(literal, spec), literal empty and spec a fresh Spec.
C_Call(st) ==
  IF st.prec_p
    THEN C_Return(TRUE, <<>>, [DefaultSpec EXCEPT !._type = CAPTURE_TYPE, !._ext = <<"p">>],
                  st.fmt, st.saved, st.saved_p, FALSE)
  ELSE IF st.saved_p
    THEN C_Return(TRUE, <<>>, st.saved, st.fmt, st.saved, FALSE, st.prec_p)
  ELSE IF st.fmt = <<>>
    THEN C_Return(FALSE, <<>>, DefaultSpec, st.fmt, st.saved, st.saved_p, st.prec_p)
  ELSE C_Defer(C_Conv(C_Ended(C_Prec(C_Width(C_Flags(C_Literal(st)))))), st)

\* static_cast<unsigned> of a value that is not negative and below 2^32.
To_Unsigned(x) == x

CaptureKinds == {"int", "unsigned", "size_t"}

\* C_Format::capture(w, spec, value): _saved after it.
C_Capture(sv, sp, value) ==
  IF value.kind \notin CaptureKinds THEN sv
  ELSE [sv EXCEPT !._min  = IF sp._ext = <<"w">> THEN To_Unsigned(value.v) ELSE @,
                  !._prec = IF sp._ext = <<"p">> THEN To_Unsigned(value.v) ELSE @]

\* C_Format::operator bool: there is something left to hand out.
C_More(st) == st.saved_p \/ st.fmt # <<>>

----------------------------------------------------------------------------
(* Idle values of the render family.                                        *)

NoArg  == [kind |-> "none"]
NoRes  == [buff |-> <<>>, count |-> 0]

RenderIdle ==
  /\ spec = DefaultSpec
  /\ arg = NoArg
  /\ w = [buf |-> <<>>, n |-> 0]
  /\ pre = [buf |-> <<>>, n |-> 0]
  /\ res = NoRes

TemplIdle ==
  /\ fmt = <<>> /\ items = <<>> /\ arg_idx = 0 /\ err = "none"
  /\ fx_idx = 0 /\ out_c = <<>>
  /\ tv_fmt = <<>> /\ tv_idx = 0 /\ out_i = <<>>

PrintfIdle ==
  /\ c_fmt = <<>> /\ saved = DefaultSpec /\ saved_p = FALSE /\ prec_p = FALSE
  /\ calls = <<>>

----------------------------------------------------------------------------
(* SpecAlign: a value is written to a fresh sink, then Adjust_Alignment     *)
(* pads or truncates it.                                                    *)

ValueBytes == {"a", "b"}
FillBytes  == {" ", "*"}

InitAlign ==
  /\ pc = "start"
  /\ tmpl = <<>> /\ TemplIdle /\ PrintfIdle
  /\ \E v \in TextsUpTo(ValueBytes, MaxValueLen) :
       arg = [kind |-> "text", text |-> v]
  /\ \E mn \in 0..MaxWidth, mx \in (0..MaxWidth) \cup {NoMax},
        al \in AlignModes, f \in FillBytes :
       spec = [DefaultSpec EXCEPT !._min = mn, !._max = mx,
                                  !._align = al, !._fill = f]
  /\ \E cap \in 0..MaxCap : w = NewSink(cap)
  /\ pre = NewSink(0)
  /\ res = NoRes

\* The formatter of the value writes its bytes to the sink.
WriteValue ==
  /\ pc = "start"
  /\ arg.kind = "text"
  /\ w' = BW_write_text(w, arg.text)
  /\ pc' = "written"
  /\ UNCHANGED <<spec, arg, pre, res>>
  /\ UNCHANGED <<tmpl, templVars, printfVars>>

AdjustAlignment ==
  /\ pc = "written"
  /\ pre' = w
  /\ w' = Adjust_Alignment(w, spec)
  /\ pc' = "aligned"
  /\ UNCHANGED <<spec, arg, res>>
  /\ UNCHANGED <<tmpl, templVars, printfVars>>

vars == <<pc, tmpl, renderVars, templVars, printfVars>>

NextAlign == WriteValue \/ AdjustAlignment

SpecAlign == InitAlign /\ [][NextAlign]_vars

----------------------------------------------------------------------------
(* C1.  Adjust_Alignment on a sink holding a value of extent E < min_width  *)
(* = W, with capacity at least W, leaves extent exactly W and the content   *)
(* fill^L ++ value ++ fill^R with the value's bytes unchanged, where (L, R) *)
(* is (W-E, 0) for RIGHT, (floor((W-E)/2), W-E-floor((W-E)/2)) for CENTER   *)
(* and (0, W-E) for LEFT, NONE and SIGN.                                    *)

ExpectedLR(align, d) ==
  CASE align = "RIGHT"  -> <<d, 0>>
    [] align = "CENTER" -> <<d \div 2, d - (d \div 2)>>
    [] OTHER            -> <<0, d>>

C1_PadsToMinWidth ==
  (pc = "aligned" /\ Extent(pre) < spec._min /\ Capacity(w) >= spec._min)
    => LET E  == Extent(pre)
           W  == spec._min
           lr == ExpectedLR(spec._align, W - E)
       IN  /\ Extent(w) = W
           /\ lr[1] + lr[2] = W - E
           /\ View(w) = Rep(spec._fill, lr[1]) \o View(pre) \o Rep(spec._fill, lr[2])
           /\ View(pre) = arg.text

\* A centred value with an odd delta and a non-empty left fill.
C1_Witness ==
  /\ pc = "aligned"
  /\ spec._align = "CENTER"
  /\ Extent(pre) = 2 /\ spec._min = 5 /\ Capacity(w) >= 5
  /\ View(w) = <<"*", "a", "b", "*", "*">>

(* C2.  max_width is a hard ceiling: whatever min_width is, the extent     *)
(* after Adjust_Alignment never exceeds max_width, and a value whose        *)
(* natural extent is larger than max_width = M ends with extent exactly M.  *)

C2_MaxWidthIsCeiling ==
  pc = "aligned"
    => /\ Extent(w) <= spec._max
       /\ (Extent(pre) > spec._max => Extent(w) = spec._max)

----------------------------------------------------------------------------
(* SpecRadix: To_Radix applied to a magnitude, for each radix and digit     *)
(* alphabet Format_Integer uses.                                            *)

Radices == {2, 8, 10, 16}

InitRadix ==
  /\ pc = "start"
  /\ tmpl = <<>> /\ TemplIdle /\ PrintfIdle
  /\ \E n \in 0..MaxN, r \in Radices, up \in BOOLEAN :
       arg = [kind |-> "radix", n |-> n, radix |-> r, upper |-> up]
  /\ spec = DefaultSpec
  /\ w = NewSink(0)
  /\ pre = NewSink(0)
  /\ res = NoRes

ApplyToRadix ==
  /\ pc = "start"
  /\ arg.kind = "radix"
  /\ res' = To_Radix(arg.radix, arg.n, IntBuffSize,
                     IF arg.upper THEN UPPER_DIGITS ELSE LOWER_DIGITS)
  /\ pc' = "converted"
  /\ UNCHANGED <<spec, arg, w, pre>>
  /\ UNCHANGED <<tmpl, templVars, printfVars>>

NextRadix == ApplyToRadix

SpecRadix == InitRadix /\ [][NextRadix]_vars

\* The value of a digit character: its place in the digit alphabet.
DigitValue(c) ==
  CHOOSE v \in 0..35 : UPPER_DIGITS[v + 1] = c \/ LOWER_DIGITS[v + 1] = c

RECURSIVE Decode(_, _)
Decode(ds, radix) ==
  IF ds = <<>> THEN 0
  ELSE Decode(SubSeq(ds, 1, Len(ds) - 1), radix) * radix + DigitValue(ds[Len(ds)])

(* C6.  For every magnitude n and radix R in {2, 8, 10, 16}, To_Radix       *)
(* writes, as the suffix of the scratch buffer and most significant digit   *)
(* first, a digit sequence whose base-R value is n, with no leading zero    *)
(* when n > 0 and exactly "0" when n = 0; the count returned is the length  *)
(* of that sequence (the bytes written are exactly the last count bytes).   *)

C6_RadixRoundTrip ==
  pc = "converted" =>
    LET ds == Suffix(res.buff, res.count)
    IN  /\ res.count >= 1 /\ res.count <= Len(res.buff)
        /\ { i \in 1..Len(res.buff) : res.buff[i] # "?" }
             = (Len(res.buff) - res.count + 1)..Len(res.buff)
        /\ \A i \in 1..Len(ds) : DigitValue(ds[i]) < arg.radix
        /\ Decode(ds, arg.radix) = arg.n
        /\ (arg.n > 0 => ds[1] # "0")
        /\ (arg.n = 0 => ds = <<"0">>)

\* A two-digit hexadecimal number in upper case.
C6_Witness ==
  /\ pc = "converted"
  /\ arg.n = 63 /\ arg.radix = 16 /\ arg.upper
  /\ res.count = 2
  /\ Suffix(res.buff, res.count) = <<"3", "F">>

----------------------------------------------------------------------------
(* SpecInt: Format_Integer renders a magnitude and a negativity flag into   *)
(* a fresh sink, then Adjust_Alignment runs on the same sink.               *)

IntTypes     == {"d", "x", "X", "b", "B", "o"}
SignModes    == {SIGN_NEVER, SIGN_NEG, SIGN_ALWAYS}
IntFillBytes == {"*", "0"}
IntCap       == MaxIntWidth + 8

InitInt ==
  /\ pc = "start"
  /\ tmpl = <<>> /\ TemplIdle /\ PrintfIdle
  /\ \E i \in 0..MaxInt, neg_p \in BOOLEAN :
       arg = [kind |-> "int", i |-> i, neg_p |-> neg_p]
  /\ \E mn \in 0..MaxIntWidth, al \in AlignModes, f \in IntFillBytes,
        sg \in SignModes, ty \in IntTypes, lead \in BOOLEAN :
       spec = [DefaultSpec EXCEPT !._min = mn, !._align = al, !._fill = f,
                                  !._sign = sg, !._type = ty,
                                  !._radix_lead_p = lead]
  /\ w = NewSink(IntCap)
  /\ pre = NewSink(0)
  /\ res = NoRes

FormatInteger ==
  /\ pc = "start"
  /\ arg.kind = "int"
  /\ res' = Integer_Digits(spec, arg.i)
  /\ w' = Format_Integer(w, spec, arg.i, arg.neg_p)
  /\ pc' = "written"
  /\ UNCHANGED <<spec, arg, pre>>
  /\ UNCHANGED <<tmpl, templVars, printfVars>>

NextInt == FormatInteger \/ AdjustAlignment

SpecInt == InitInt /\ [][NextInt]_vars

\* How many times byte c stands in text t.
Count(t, c) == Cardinality({ i \in 1..Len(t) : t[i] = c })

\* The digits Format_Integer wrote.
IntDigits == Suffix(res.buff, res.count)

(* C8 (as claimed).  For every sign setting, Format_Integer writes '-'      *)
(* whenever the value is negative; it writes the always-character when the  *)
(* value is non-negative and the sign mode is ALWAYS; otherwise no sign.    *)

C8_SignAsClaimed ==
  pc = "written" =>
    LET out == View(w)
    IN  /\ Count(out, "-") = (IF arg.neg_p THEN 1 ELSE 0)
        /\ Count(out, "+") =
             (IF ~arg.neg_p /\ spec._sign = SIGN_ALWAYS THEN 1 ELSE 0)

(* C8 (amended).  Format_Integer writes '-' when the value is negative and  *)
(* the sign mode is not NEVER; it writes the always-character when the      *)
(* value is non-negative and the sign mode is ALWAYS; in every other case,  *)
(* which includes every value under NEVER, it writes no sign character.     *)
(* The sign, when written, stands before the first digit.                   *)

C8_SignPolicy ==
  pc = "written" =>
    LET out == View(w)
        sgn == IF arg.neg_p /\ spec._sign # SIGN_NEVER THEN "-"
               ELSE IF ~arg.neg_p /\ spec._sign = SIGN_ALWAYS THEN "+"
               ELSE NUL
    IN  /\ Count(out, "-") = (IF sgn = "-" THEN 1 ELSE 0)
        /\ Count(out, "+") = (IF sgn = "+" THEN 1 ELSE 0)
        /\ Len(out) = Extent(w)
        /\ sgn # NUL =>
             \E k \in 1..Len(out) :
               /\ out[k] = sgn
               /\ \A j \in 1..(k - 1) : out[j] = spec._fill

\* A negative value under NEVER: digits only.
C8_Witness ==
  /\ pc = "written"
  /\ arg.neg_p /\ arg.i = 5 /\ spec._sign = SIGN_NEVER
  /\ spec._type = "d" /\ spec._min = 0
  /\ View(w) = <<"5">>

\* prefix ++ digits stands in `out` right after `before`, followed by fill only.
BlockAfter(out, before, block, fill) ==
  /\ Len(out) >= Len(before) + Len(block)
  /\ out = before \o block \o Rep(fill, Len(out) - Len(before) - Len(block))

(* C9 (as claimed).  With sign mode ALWAYS and a non-negative integer, for  *)
(* every alignment mode, the output has the positive marker before the      *)
(* digits and the radix prefix immediately followed by the first digit:     *)
(* fill may stand before the marker, between the marker and the prefix, or  *)
(* after the digits, never inside the prefix+digits block.                  *)

C9_PrefixAdjacentAsClaimed ==
  (pc = "written" /\ ~arg.neg_p /\ spec._sign = SIGN_ALWAYS) =>
    \E l \in 0..Len(View(w)), m \in 0..Len(View(w)) :
      BlockAfter(View(w),
                 Rep(spec._fill, l) \o <<"+">> \o Rep(spec._fill, m),
                 Integer_Prefix(spec) \o IntDigits, spec._fill)

(* C9 (amended).  With sign mode ALWAYS and a non-negative integer: under   *)
(* every alignment mode other than SIGN the output is fill, the positive    *)
(* marker, the radix prefix (if any) immediately followed by the digits,    *)
(* then fill; under SIGN alignment the output is the marker, the prefix,    *)
(* then the fill, then the digits, so the fill separates prefix and digits. *)
(* The fill makes the output min_width long, except under NONE, where       *)
(* Format_Integer writes no fill.                                           *)

C9_PrefixPlacement ==
  (pc = "written" /\ ~arg.neg_p /\ spec._sign = SIGN_ALWAYS) =>
    LET out    == View(w)
        block  == Integer_Prefix(spec) \o IntDigits
        padlen == IF spec._align = "NONE" THEN 0
                  ELSE Max2(spec._min - 1 - Len(block), 0)
    IN  /\ Len(out) = 1 + Len(block) + padlen
        /\ IF spec._align = "SIGN"
             THEN out = <<"+">> \o Integer_Prefix(spec)
                          \o Rep(spec._fill, padlen) \o IntDigits
             ELSE \E l \in 0..padlen :
                    BlockAfter(out, Rep(spec._fill, l) \o <<"+">>, block, spec._fill)
        /\ Integer_Prefix(spec) =
             (IF ~spec._radix_lead_p \/ spec._type = "d" THEN <<>>
              ELSE IF spec._type = "o" THEN <<"0">>
              ELSE <<"0", spec._type>>)

\* SIGN alignment with a hexadecimal prefix and room to fill.
C9_Witness ==
  /\ pc = "written"
  /\ ~arg.neg_p /\ spec._sign = SIGN_ALWAYS /\ spec._align = "SIGN"
  /\ spec._radix_lead_p /\ spec._type = "x" /\ arg.i = 17 /\ spec._min = 7
  /\ View(w) = <<"+", "0", "x", "*", "*", "1", "1">>

\* The number of digits of n in the given radix.
RECURSIVE Digit_Count(_, _)
Digit_Count(n, radix) ==
  IF n < radix THEN 1 ELSE 1 + Digit_Count(n \div radix, radix)

\* The lengths of the sign, the radix prefix and the digits of the integer
\* rendered.
Sign_Length ==
  IF (arg.neg_p /\ spec._sign # SIGN_NEVER) \/ (~arg.neg_p /\ spec._sign = SIGN_ALWAYS)
    THEN 1 ELSE 0

Prefix_Length ==
  IF ~spec._radix_lead_p THEN 0
  ELSE IF spec._type \in {"x", "X", "b", "B"} THEN 2
  ELSE IF spec._type = "o" THEN 1
  ELSE 0

Digits_Length ==
  Digit_Count(arg.i, CASE spec._type \in {"x", "X"} -> 16
                       [] spec._type \in {"b", "B"} -> 2
                       [] spec._type = "o"          -> 8
                       [] OTHER                     -> 10)

(* C13.  For every magnitude, negativity flag, sign setting, radix type,    *)
(* radix_lead flag, fill and alignment mode, with max_width unset,          *)
(* Format_Integer followed by Adjust_Alignment on the same sink leaves an   *)
(* extent of exactly max(min_width, s + p + d), s the sign length, p the    *)
(* prefix length and d the digit count; and when the alignment mode is not  *)
(* NONE, Format_Integer alone already reaches that extent and               *)
(* Adjust_Alignment leaves the sink as it found it.                         *)

C13_IntegerExtent ==
  LET total == Max2(spec._min, Sign_Length + Prefix_Length + Digits_Length)
  IN  /\ (pc = "written" /\ spec._align # "NONE") => Extent(w) = total
      /\ pc = "aligned" =>
           /\ Extent(w) = total
           /\ spec._align # "NONE" => w = pre

\* NONE alignment: Format_Integer writes no fill, Adjust_Alignment pads.
C13_Witness ==
  /\ pc = "aligned"
  /\ spec._align = "NONE" /\ spec._min = 8 /\ spec._fill = "*"
  /\ spec._radix_lead_p /\ spec._type = "o" /\ spec._sign = SIGN_NEG
  /\ arg.neg_p /\ arg.i = 9
  /\ View(pre) = <<"-", "0", "1", "1">>
  /\ View(w) = <<"-", "0", "1", "1", "*", "*", "*", "*">>

----------------------------------------------------------------------------
(* SpecFloat: Format_Float renders a double into a fresh sink.  min_width   *)
(* is 0, so no fill is written and the output is the rendered value alone.  *)

FloatClasses == {"normal", "zero", "inf", "nan", "subnormal"}

FloatCap == 24

InitFloat ==
  /\ pc = "start"
  /\ tmpl = <<>> /\ TemplIdle /\ PrintfIdle
  /\ \E cls \in FloatClasses, wh \in 0..MaxWhole, fn \in 0..(FracDen - 1),
        neg_p \in BOOLEAN :
       /\ cls = "normal" => (wh # 0 \/ fn # 0)
       /\ cls # "normal" => (wh = 0 /\ fn = 0)
       /\ arg = [kind |-> "float", neg_p |-> neg_p,
                 f |-> [cls |-> cls, whole |-> wh, fnum |-> fn]]
  /\ \E pr \in -1..MaxPrec, al \in AlignModes, sg \in SignModes :
       spec = [DefaultSpec EXCEPT !._prec = pr, !._align = al, !._sign = sg]
  /\ w = NewSink(FloatCap)
  /\ pre = NewSink(0)
  /\ res = NoRes

FormatFloat ==
  /\ pc = "start"
  /\ arg.kind = "float"
  /\ w' = Format_Float(w, spec, arg.f, arg.neg_p)
  /\ pc' = "written"
  /\ UNCHANGED <<spec, arg, pre, res>>
  /\ UNCHANGED <<tmpl, templVars, printfVars>>

NextFloat == FormatFloat

SpecFloat == InitFloat /\ [][NextFloat]_vars

\* The place of the first byte c in text t (0: none).
IndexOf(t, c) ==
  IF \E i \in 1..Len(t) : t[i] = c
    THEN CHOOSE i \in 1..Len(t) : t[i] = c /\ \A j \in 1..(i - 1) : t[j] # c
    ELSE 0

IsDecimal(t) ==
  /\ t # <<>>
  /\ \A i \in 1..Len(t) : t[i] \in {"0","1","2","3","4","5","6","7","8","9"}

Pow10(k) == Times_Ten(1, k)

(* C7.  For every normal value with a non-zero fractional part and          *)
(* precision p > 0 (p = 2 when unspecified), Format_Float renders           *)
(* <sign><integral digits>.<fraction digits>, whose decimal reading equals  *)
(* the magnitude rounded half-up to p decimal places; a value with no       *)
(* fractional part is rendered by the integer path, with no decimal point.  *)

C7_FloatReadsBackRounded ==
  (pc = "written" /\ arg.kind = "float" /\ arg.f.cls = "normal") =>
    LET out  == View(w)
        p    == IF spec._prec = -1 THEN 2 ELSE spec._prec
        body == IF out # <<>> /\ Head(out) \in {"-", "+", " "} THEN Tail(out) ELSE out
        dot  == IndexOf(body, ".")
        ints == SubSeq(body, 1, dot - 1)
        frac == SubSeq(body, dot + 1, Len(body))
        \* the magnitude times 10^p, rounded half-up to an integer
        rounded == (2 * (arg.f.whole * FracDen + arg.f.fnum) * Pow10(p) + FracDen)
                     \div (2 * FracDen)
    IN  /\ (arg.f.fnum # 0 /\ p > 0) =>
             /\ dot > 0 /\ IsDecimal(ints) /\ IsDecimal(frac)
             /\ (Decode(ints, 10) * Pow10(Len(frac)) + Decode(frac, 10)) * Pow10(p)
                  = rounded * Pow10(Len(frac))
        /\ arg.f.fnum = 0 =>
             /\ dot = 0
             /\ out = View(Format_Integer(NewSink(FloatCap), spec, arg.f.whole, arg.neg_p))

----------------------------------------------------------------------------
(* SpecCompile: Format::Format compiles a template, one loop iteration per  *)
(* step; the compiled Format is then iterated with FormatExtractor, and the *)
(* template text is iterated with TextViewExtractor as an immediate render  *)
(* does.                                                                    *)

TemplateBytes == {"{", "}", "a", "1", ":"}

InitCompile ==
  /\ pc = "compile"
  /\ tmpl \in TextsUpTo(TemplateBytes, MaxTmplLen)
  /\ fmt = tmpl
  /\ items = <<>> /\ arg_idx = 0 /\ err = "none"
  /\ fx_idx = 0 /\ out_c = <<>>
  /\ tv_fmt = tmpl /\ tv_idx = 0 /\ out_i = <<>>
  /\ RenderIdle /\ PrintfIdle

\* One iteration of "while (ex)" in Format::Format; an exception leaves the
\* constructor and no Format exists.
CompileStep ==
  /\ pc = "compile"
  /\ fmt # <<>>
  /\ LET r == Format_Step(fmt, items, arg_idx)
     IN  IF r.err # "none"
           THEN /\ pc' = "failed"
                /\ err' = r.err
                /\ items' = <<>>
                /\ UNCHANGED <<fmt, arg_idx>>
           ELSE /\ fmt' = r.fmt
                /\ items' = r.items
                /\ arg_idx' = r.arg_idx
                /\ UNCHANGED <<pc, err>>
  /\ UNCHANGED <<fx_idx, out_c, tv_fmt, tv_idx, out_i>>
  /\ UNCHANGED <<tmpl, renderVars, printfVars>>

\* The loop ends: the Format is built.
CompileEnd ==
  /\ pc = "compile"
  /\ fmt = <<>>
  /\ pc' = "compiled"
  /\ UNCHANGED <<tmpl, renderVars, templVars, printfVars>>

\* One call of FormatExtractor::operator() by a render loop.
FormatExtract ==
  /\ pc = "compiled"
  /\ fx_idx < Len(items)
  /\ LET r == Format_Extract(items, fx_idx)
     IN  /\ fx_idx' = r.idx
         /\ out_c' = out_c \o Yield(r.literal, r.spec_p, r.spec)
  /\ UNCHANGED <<pc, fmt, items, arg_idx, err, tv_fmt, tv_idx, out_i>>
  /\ UNCHANGED <<tmpl, renderVars, printfVars>>

FormatExtractEnd ==
  /\ pc = "compiled"
  /\ fx_idx >= Len(items)
  /\ pc' = "immediate"
  /\ UNCHANGED <<tmpl, renderVars, templVars, printfVars>>

\* One call of TextViewExtractor::operator() by a render loop on the text,
\* e what the call returned.
ImmediateYield(e) ==
  /\ e.err = "none"
  /\ tv_fmt' = e.fmt
  /\ tv_idx' = IF e.spec_p THEN Immediate_Index(e.spec, tv_idx).arg_idx ELSE tv_idx
  /\ out_i' = out_i \o Yield(e.literal, e.spec_p, Immediate_Index(e.spec, tv_idx).spec)

ImmediateStep ==
  /\ pc = "immediate"
  /\ tv_fmt # <<>>
  /\ ImmediateYield(TextView_Extract(tv_fmt))
  /\ UNCHANGED <<pc, fmt, items, arg_idx, err, fx_idx, out_c>>
  /\ UNCHANGED <<tmpl, renderVars, printfVars>>

ImmediateEnd ==
  /\ pc = "immediate"
  /\ tv_fmt = <<>>
  /\ pc' = "done"
  /\ UNCHANGED <<tmpl, renderVars, templVars, printfVars>>

NextCompile ==
  \/ CompileStep \/ CompileEnd
  \/ FormatExtract \/ FormatExtractEnd
  \/ ImmediateStep \/ ImmediateEnd

SpecCompile == InitCompile /\ [][NextCompile]_vars

\* The specifiers among the items, in order.
SpecItems(its) == SelectSeq(its, LAMBDA it : it._type # LITERAL_TYPE)

(* C3.  For every well-formed template, iterating the compiled Format with  *)
(* FormatExtractor yields the same ordered sequence of literal texts and    *)
(* specifiers, each specifier with the same fields and the same argument    *)
(* position, as iterating the template text with TextViewExtractor with     *)
(* the implicit specifiers numbered in order of appearance.                 *)

C3_CompiledMatchesImmediate ==
  pc = "done" => out_c = out_i

(* C4.  The implicit counter starts at 0, a specifier with no name is       *)
(* stored with the counter's value as its index, and the counter advances   *)
(* by exactly one per specifier that has an index (unnamed or explicit      *)
(* numeric): the counter equals the number of such specifiers stored, and   *)
(* in a template of unnamed specifiers only the k-th (from 0) has index k.  *)

C4_CounterAdvancesByOne ==
  pc \in {"compile", "compiled"} =>
    LET sps == SpecItems(items)
    IN  /\ arg_idx = Cardinality({ k \in 1..Len(sps) : sps[k]._idx >= 0 })
        /\ (\A k \in 1..Len(sps) : sps[k]._name = <<>>)
             => \A k \in 1..Len(sps) : sps[k]._idx = k - 1

\* The first brace of t, scanning from position i, that opens or closes
\* nothing: doubled braces are skipped in pairs and a '{' with a later '}'
\* is skipped up to the first such '}'.  [brace, at], brace "none" when
\* there is no such brace.
RECURSIVE First_Stray_Brace(_, _)
First_Stray_Brace(t, i) ==
  IF i > Len(t) THEN [brace |-> "none", at |-> 0]
  ELSE IF t[i] \notin {"{", "}"} THEN First_Stray_Brace(t, i + 1)
  ELSE IF i < Len(t) /\ t[i + 1] = t[i] THEN First_Stray_Brace(t, i + 2)
  ELSE IF t[i] = "}" THEN [brace |-> "}", at |-> i]
  ELSE IF \A j \in (i + 1)..Len(t) : t[j] # "}" THEN [brace |-> "{", at |-> i]
  ELSE First_Stray_Brace(t,
         1 + CHOOSE j \in (i + 1)..Len(t) :
               /\ t[j] = "}"
               /\ \A k \in (i + 1)..(j - 1) : t[k] # "}")

Kind_Of_Brace(b) ==
  IF b = "}" THEN "UnopenedDelimiter"
  ELSE IF b = "{" THEN "UnclosedDelimiter"
  ELSE "none"

(* C10 as stated.  Construction fails with UnopenedDelimiter when the first *)
(* stray brace is a '}' and with UnclosedDelimiter when it is a '{',        *)
(* wherever in the template the brace stands, its last character included,  *)
(* and a failed construction leaves no item sequence.                       *)

Doubled_First(t) ==
  /\ \E i \in 1..Len(t) : t[i] \in {"{", "}"}
  /\ LET i == CHOOSE i \in 1..Len(t) :
                /\ t[i] \in {"{", "}"}
                /\ \A j \in 1..(i - 1) : t[j] \notin {"{", "}"}
     IN  i < Len(t) /\ t[i + 1] = t[i]

\* The text of t up to and including its first brace, and the text after the
\* brace that follows it.
Up_To_First_Brace(t) ==
  SubSeq(t, 1, CHOOSE i \in 1..Len(t) :
                 /\ t[i] \in {"{", "}"}
                 /\ \A j \in 1..(i - 1) : t[j] \notin {"{", "}"})

After_Pair(t) == SubSeq(t, Len(Up_To_First_Brace(t)) + 2, Len(t))

(* C11.  When the first brace of the remaining template is immediately      *)
(* followed by the same brace, a call of the extractor returns no           *)
(* specifier, its literal is the text before the pair followed by exactly   *)
(* one brace, and the remaining template becomes the text after the pair,   *)
(* unchanged: the constructor stores that one literal item and no           *)
(* specifier, and a render loop on the text is handed that one literal.     *)

C11_DoubledBraceIsOneLiteral ==
  [][ /\ (pc = "compile" /\ Doubled_First(fmt)) =>
           /\ pc' = "compile"
           /\ fmt' = After_Pair(fmt)
           /\ items' = Append(items, Literal_Item(Up_To_First_Brace(fmt)))
           /\ arg_idx' = arg_idx
      /\ (pc = "immediate" /\ Doubled_First(tv_fmt)) =>
           /\ tv_fmt' = After_Pair(tv_fmt)
           /\ out_i' = Append(out_i, [kind |-> "literal",
                                      text |-> Up_To_First_Brace(tv_fmt)])
           /\ tv_idx' = tv_idx ]_vars

C11_Witness ==
  /\ pc = "compile"
  /\ tmpl = <<"a", "}", "}", "1", "{">>
  /\ fmt = <<"1", "{">>
  /\ items = << Literal_Item(<<"a", "}">>) >>

------------------------------------------------------------\* One step of the constructor on a non-empty remaining template: parse
\* raises or leaves less text, and a step that does not raise stores an item.
Compile_Progress ==
  (pc = "compile" /\ fmt # <<>>) =>
    /\ TextView_Parse(fmt).err # "none" \/ Len(TextView_Parse(fmt).fmt) < Len(fmt)
    /\ \/ pc' = "failed" /\ err' # "none"
       \/ pc' = "compile" /\ Len(fmt') < Len(fmt) /\ Len(items') > Len(items)

\* The items stored never outnumber the characters consumed, so neither do
\* the iterations; the loop is left only with the whole template compiled
\* or with an error.
Compile_Bounded ==
  /\ (pc = "compile" /\ fmt # <<>>) =>
       Len(items') + Len(fmt') <= Len(tmpl) /\ pc' \in {"compile", "failed"}
  /\ (pc = "compile" /\ pc' # "compile") =>
       \/ pc' = "failed" /\ err' # "none"
       \/ pc' = "compiled" /\ fmt = <<>> /\ err' = "none" /\ items' = items

(* C16.  Format construction terminates: on a non-empty remaining template  *)
(* TextViewExtractor::parse raises a parse error or leaves a strictly       *)
(* shorter template, every iteration of the constructor's loop that does    *)
(* not raise shortens the template and stores at least one item, the items  *)
(* (hence the iterations) never outnumber the characters consumed, and the  *)
(* loop is left only with the whole template compiled or with an error.     *)
(* The length of the remaining template is the variant of the loop.         *)

C16_ConstructionTerminates ==
  [][Compile_Progress /\ Compile_Bounded]_vars

\* A template compiled in several iterations, literals and specifiers.
C16_Witness ==
  /\ pc = "compiled"
  /\ Len(items) >= 3
  /\ SpecItems(items) # <<>>
  /\ Len(SpecItems(items)) < Len(items)

----------------
(* SpecParse: Spec::parse is applied to a specifier body on a fresh Spec.   *)
(* tmpl is the body, spec the Spec after the call, err the kind thrown.     *)

BodyBytes == {"1", "2", "a", ":", " ", "."}

InitParse ==
  /\ pc = "start"
  /\ tmpl \in TextsUpTo(BodyBytes, MaxBodyLen)
  /\ RenderIdle /\ TemplIdle /\ PrintfIdle

\* What the call leaves: the Spec, and the exception when one is thrown.
ParseReturned(r) ==
  /\ spec' = r.spec
  /\ err' = r.err
  /\ pc' = IF r.err = "none" THEN "parsed" ELSE "thrown"

ParseSpec ==
  /\ pc = "start"
  /\ ParseReturned(Spec_Parse(DefaultSpec, tmpl))
  /\ UNCHANGED <<arg, w, pre, res, tmpl, printfVars>>
  /\ UNCHANGED <<fmt, items, arg_idx, fx_idx, out_c, tv_fmt, tv_idx, out_i>>

NextParse == ParseSpec

SpecParse == InitParse /\ [][NextParse]_vars

\* The text of t before its first ':', t itself when it has none.
Before_Colon(t) ==
  IF \E i \in 1..Len(t) : t[i] = ":"
    THEN SubSeq(t, 1, (CHOOSE i \in 1..Len(t) :
                         t[i] = ":" /\ \A j \in 1..(i - 1) : t[j] # ":") - 1)
    ELSE t

All_Digits(t) ==
  \A i \in 1..Len(t) : t[i] \in {"0", "1", "2", "3", "4", "5", "6", "7", "8", "9"}

\* The decimal value of a text of digits.
RECURSIVE Decimal_Value(_)
Decimal_Value(t) ==
  IF t = <<>> THEN 0
  ELSE 10 * Decimal_Value(SubSeq(t, 1, Len(t) - 1))
         + (CHOOSE d \in 0..9 : DecimalDigits[d + 1] = t[Len(t)])

(* C12.  After Spec::parse of a specifier body, the name is the text before *)
(* the first ':' (the whole body when there is none), and the index is the  *)
(* decimal value of the name if and only if the name consists entirely of   *)
(* one or more decimal digits; for every other name, the empty name         *)
(* included, the index keeps its negative default.                          *)

C12_IndexOnlyFromDigits ==
  pc = "parsed" =>
    /\ spec._name = Before_Colon(tmpl)
    /\ spec._idx = IF spec._name # <<>> /\ All_Digits(spec._name)
                     THEN Decimal_Value(spec._name)
                     ELSE DefaultSpec._idx

----------------------------------------------------------------------------
(* SpecScratch: the To_Radix calls of Format_Integer and Format_Float on    *)
(* their scratch buffers, for 64-bit magnitudes, one loop iteration per     *)
(* step.  arg holds the magnitude i given to Format_Integer, the double     *)
(* whole + fnum / FracDen given to Format_Float and the scale computed for  *)
(* it; res is the To_Radix call in progress.                                *)

\* The magnitudes given to Format_Integer: 0, a small one, 2^32 and
\* 2^64 - 1.
ScratchMagnitudes ==
  {Wide(0), Wide(MaxInt), <<4, 2, 9, 4, 9, 6, 7, 2, 9, 6>>,
   Wide_Sub(Two64, Wide(1))}

\* The whole parts given to Format_Float: 0, a small one and 2^52 - 1, the
\* largest whole part of a double that has a fraction.
ScratchWholes ==
  {Wide(0), Wide(MaxWhole), <<4, 5, 0, 3, 5, 9, 9, 6, 2, 7, 3, 7, 0, 4, 9, 5>>}

ScratchFractions  == {1, FracDen \div 2, FracDen - 1}

InitScratch ==
  /\ pc = "start"
  /\ tmpl = <<>> /\ TemplIdle /\ PrintfIdle
  /\ \E i \in ScratchMagnitudes, wh \in ScratchWholes, fn \in ScratchFractions :
       arg = [kind |-> "scratch", i |-> i, whole |-> wh, fnum |-> fn, shift |-> <<>>]
  /\ \E ty \in IntTypes, pr \in {DefaultSpec._prec} \cup 1..MaxScratchPrec :
       spec = [DefaultSpec EXCEPT !._type = ty, !._prec = pr]
  /\ w = [buf |-> <<>>, n |-> 0]
  /\ pre = [buf |-> <<>>, n |-> 0]
  /\ res = NoRes

\* Format_Integer calls To_Radix on buff[].
IntegerToRadix ==
  /\ pc = "start"
  /\ res' = To_Radix_Enter_64(Integer_Style(spec)[3], arg.i, IntBuffSize,
                              Integer_Style(spec)[4])
  /\ pc' = "integer"
  /\ UNCHANGED <<spec, arg, w, pre>>
  /\ UNCHANGED <<tmpl, templVars, printfVars>>

\* Format_Float computes the scale for the precision.
FloatScale ==
  /\ pc = "start"
  /\ arg' = [arg EXCEPT !.shift = Float_Shift_64(Float_Precision(spec))]
  /\ pc' = "scaled"
  /\ UNCHANGED <<spec, w, pre, res>>
  /\ UNCHANGED <<tmpl, templVars, printfVars>>

\* Format_Float calls To_Radix on whole[].
FloatWholeToRadix ==
  /\ pc = "scaled"
  /\ res' = To_Radix_Enter_64(10, arg.whole, FloatBuffSize, LOWER_DIGITS)
  /\ pc' = "whole"
  /\ UNCHANGED <<spec, arg, w, pre>>
  /\ UNCHANGED <<tmpl, templVars, printfVars>>

\* Format_Float calls To_Radix on fraction[].
FloatFractionToRadix ==
  /\ pc = "whole"
  /\ To_Radix_Done_64(res)
  /\ res' = To_Radix_Enter_64(10, Frac_Part_64(arg.fnum, arg.shift), FloatBuffSize,
                              LOWER_DIGITS)
  /\ pc' = "fraction"
  /\ UNCHANGED <<spec, arg, w, pre>>
  /\ UNCHANGED <<tmpl, templVars, printfVars>>

\* One iteration of the loop of the To_Radix call in progress.
ToRadixStep ==
  /\ pc \in {"integer", "whole", "fraction"}
  /\ ~To_Radix_Done_64(res)
  /\ res' = To_Radix_Step_64(res)
  /\ UNCHANGED <<pc, spec, arg, w, pre>>
  /\ UNCHANGED <<tmpl, templVars, printfVars>>

NextScratch ==
  \/ IntegerToRadix \/ FloatScale \/ FloatWholeToRadix \/ FloatFractionToRadix
  \/ ToRadixStep

SpecScratch == InitScratch /\ [][NextScratch]_vars

(* C14.  Every To_Radix call made by Format_Integer and by Format_Float     *)
(* writes only inside the scratch buffer it is given: the number of digits  *)
(* produced is at most 65 for the integer buffer and at most 16 for each of *)
(* Format_Float's whole-part and fraction buffers, for every magnitude and  *)
(* every precision; and the power-of-ten scale computed for the precision   *)
(* is 10^precision, with no overflow of 64 bits.                            *)

C14_ScratchBuffersHold ==
  /\ pc = "integer" => res.width = 65 /\ res.count <= res.width
  /\ pc \in {"whole", "fraction"} => res.width = 16 /\ res.count <= res.width
  /\ pc \in {"scaled", "whole", "fraction"} =>
       arg.shift = <<1>> \o [j \in 1..Float_Precision(spec) |-> 0]

----------------------------------------------------------------------------
(* SpecPrintf: a render loop drives C_Format over a printf template: it     *)
(* calls operator() while the translator has something left, and hands the  *)
(* next argument to capture when the specifier returned is a capture        *)
(* specifier.  calls is the history of the calls.                           *)

PrintfBytes == {"%", "*", ".", "d", "5", "-"}

NoValue == [kind |-> "none", v |-> 0]

C_State == [fmt |-> c_fmt, saved |-> saved, saved_p |-> saved_p, prec_p |-> prec_p]

InitPrintf ==
  /\ pc = "call"
  /\ tmpl \in TextsUpTo(PrintfBytes, MaxCLen)
  /\ c_fmt = tmpl
  /\ saved = DefaultSpec /\ saved_p = FALSE /\ prec_p = FALSE
  /\ calls = <<>>
  /\ RenderIdle /\ TemplIdle

\* The state and the history after a call that returned r.
Returned(r) ==
  /\ c_fmt' = r.fmt
  /\ saved' = r.saved
  /\ saved_p' = r.saved_p
  /\ prec_p' = r.prec_p
  /\ calls' = Append(calls, [ret |-> r.ret, literal |-> r.literal, spec |-> r.spec,
                             before |-> c_fmt, after |-> r.fmt, value |-> NoValue])
  /\ pc' = IF r.ret /\ r.spec._type = CAPTURE_TYPE THEN "capture" ELSE "call"

Call ==
  /\ pc = "call"
  /\ C_More(C_State)
  /\ Returned(C_Call(C_State))
  /\ UNCHANGED <<tmpl, renderVars, templVars>>

\* The render loop hands the next argument to capture.
Capture ==
  /\ pc = "capture"
  /\ \E value \in [kind : CaptureKinds \cup {"other"}, v : 0..MaxCapture] :
       /\ saved' = C_Capture(saved, calls[Len(calls)].spec, value)
       /\ calls' = [calls EXCEPT ![Len(calls)].value = value]
  /\ pc' = "call"
  /\ UNCHANGED <<c_fmt, saved_p, prec_p>>
  /\ UNCHANGED <<tmpl, renderVars, templVars>>

Finish ==
  /\ pc = "call"
  /\ ~C_More(C_State)
  /\ pc' = "done"
  /\ UNCHANGED <<tmpl, renderVars, templVars, printfVars>>

NextPrintf == Call \/ Capture \/ Finish

SpecPrintf == InitPrintf /\ [][NextPrintf]_vars

\* A template that is one conversion: '%', flags, width, precision, 'd'.
Conversion(flags, width, precision) ==
  <<"%">> \o flags \o width \o precision \o <<"d">>

ConvFlags      == {<<>>, <<"-">>}
ConvWidths     == {<<>>, <<"*">>, <<"5">>}
ConvPrecisions == {<<>>, <<".", "*">>, <<".", "5">>}

\* The history the claim describes for Conversion(flags, width, precision),
\* given the history h for the values that were captured.
Captures(h, width, precision) ==
  (IF width = <<"*">> THEN <<"w">> ELSE <<>>)
    \o (IF precision = <<".", "*">> THEN <<"p">> ELSE <<>>)

Replayed(h, flags, width, precision) ==
  [DefaultSpec EXCEPT
     !._type  = "d",
     !._align = IF flags = <<"-">> THEN "LEFT" ELSE "RIGHT",
     !._min   = IF width = <<"*">> THEN h[1].value.v
                ELSE IF width = <<"5">> THEN 5 ELSE 0,
     !._prec  = IF precision = <<".", "*">>
                  THEN h[Len(Captures(h, width, precision))].value.v
                ELSE IF precision = <<".", "5">> THEN 5 ELSE -1]

AsDescribed(h, flags, width, precision) ==
  LET caps == Captures(h, width, precision)
      n    == Len(caps)
  IN  /\ Len(h) = n + 1
      /\ \A k \in 1..n :
           /\ h[k].ret
           /\ h[k].spec._type = CAPTURE_TYPE
           /\ h[k].spec._ext = <<caps[k]>>
      /\ h[n + 1].ret
      /\ h[n + 1].spec = Replayed(h, flags, width, precision)
      /\ h[1].before = tmpl /\ h[1].after = <<>>
      /\ \A k \in 2..(n + 1) : h[k].before = <<>> /\ h[k].after = <<>>

(* C5.  For a template that is one printf conversion whose width and/or     *)
(* precision is '*', and integers handed to capture, the calls of           *)
(* operator() are, in this order: a capture specifier with extension "w"    *)
(* when the width is '*', a capture specifier with extension "p" when the   *)
(* precision is '*', then once the real specifier, whose min_width and      *)
(* precision are the captured integers and whose other fields are those     *)
(* parsed from the conversion; the first call consumes the conversion and   *)
(* the later ones consume nothing.                                          *)

C5_CaptureThenReplay ==
  pc = "done" =>
    \A flags \in ConvFlags, width \in ConvWidths, precision \in ConvPrecisions :
      ( /\ tmpl = Conversion(flags, width, precision)
        /\ (width = <<"*">> \/ precision = <<".", "*">>)
        /\ \A k \in 1..Len(calls) :
             calls[k].value.kind \in CaptureKinds \cup {"none"} )
        => AsDescribed(calls, flags, width, precision)

\* Call k of the history returned a capture specifier.
Is_Capture(k) == calls[k].ret /\ calls[k].spec._type = CAPTURE_TYPE

\* Call k of the history parsed nothing of the template and returned a
\* specifier: it handed out something kept from an earlier call.
Is_Deferred(k) == calls[k].ret /\ calls[k].before = calls[k].after

(* C15.  Whenever operator() has returned, a pending precision capture      *)
(* (_prec_p) implies a pending saved specifier (_saved_p); every capture    *)
(* specifier in the history is followed by a call that parses nothing and   *)
(* returns either the next capture specifier or the saved specifier, so the *)
(* history never ends on a capture specifier; and a capture specifier that  *)
(* was handed out without parsing (the deferred precision capture) comes    *)
(* directly after the width capture of the same conversion, never after a   *)
(* call that rejected its text as a literal.                                *)

C15_PendingPrecisionHasSaved ==
  /\ prec_p => saved_p
  /\ \A k \in 1..Len(calls) :
       Is_Capture(k) =>
         /\ k < Len(calls) => Is_Deferred(k + 1)
         /\ k = Len(calls) => pc = "capture" \/ saved_p
         /\ Is_Deferred(k) => k > 1 /\ Is_Capture(k - 1) /\ calls[k - 1].spec._ext = <<"w">>

====
